---- MODULE Spec2Model ----
(***************************************************************************)
(* Model of the Ansible plugins of gyptazy/ansible-plugins.                *)
(*                                                                         *)
(* Part 1: library/java_cert.py.  One invocation of the module is a walk   *)
(* of main() from the construction of AnsibleModule to the single          *)
(* exit_json / fail_json (or an unhandled exception).  Every external      *)
(* command (module.run_command) is one step; its exit code is chosen by    *)
(* the environment.  keytool is modelled by its contract: "-list" exits 0  *)
(* exactly when the alias is in the keystore, "-importcert" /              *)
(* "-importkeystore" exiting 0 adds the alias, "-delete" exiting 0 removes *)
(* it.  Python strings that the code takes apart (the proxy settings) are  *)
(* sequences of one-character strings.                                     *)
(***************************************************************************)
EXTENDS Integers, Sequences, FiniteSets, TLC

VARIABLES
    params,        \* module.params as given by the operator
    env,           \* os.environ: https_proxy, no_proxy
    check_mode,    \* module.check_mode
    keystore,      \* aliases stored in the keystore file
    ksExists,      \* os.path.exists(keystore_path)
    pc,            \* position of the invocation in main()
    cert_present,  \* main's local cert_present
    after_delete,  \* where delete_cert returns to (module_exit=True), or None
    proxy_opts,    \* import_cert_url's local proxy_opts, once it is built
    fetch_out,     \* stdout of the fetch command
    cmdLog,        \* commands run by run_command in this invocation, in order
    result,        \* what the invocation handed to exit_json / fail_json
    run,           \* number of the current invocation
    ks0,           \* keystore at the start of the current invocation
    prev,          \* summary of the previous invocation
    \* library/pf.py
    pf_params,     \* module.params: config, action, dry_run
    pf_check_mode, \* module.check_mode
    pf_host,       \* the managed host: /etc/os-release, exit code of ls /sbin/pfctl
    pf_enabled,    \* whether the packet filter is enabled on the host
    pf_rules,      \* the rule set the packet filter has loaded
    pf_pc,         \* position of the invocation in main()
    active_pf,     \* main's local active_pf
    pf_cmds,       \* commands run by run_command, in order
    pf_result,     \* what the invocation handed to exit_json / fail_json
    \* library/freshclam.py
    fc_params,     \* module.params: update
    fc_check_mode, \* module.check_mode
    fc_bin,        \* what module.get_bin_path('freshclam') returns on the host
    fc_pc,         \* position of the invocation in main()
    fc_locals,     \* main's locals rc_code, out, err, and whether they are bound
    fc_cmds,       \* commands run by run_command, in order
    fc_result,     \* what the invocation handed to exit_json / fail_json
    \* callback/audit.py
    audit_ini,     \* /etc/ansible/audit.ini, section audit: the value of enable
    csv_file,      \* the rows of the CSV log file, in order
    au_pc,         \* where the playbook run is: new, start, stats, end
    au_self,       \* the CallbackModule object's fields
    au_run,        \* number of the current playbook run
    au_stats,      \* the stats handed to playbook_on_stats so far, in order
    \* callback/msteams.py
    teams_ini,     \* /etc/ansible/msteams.ini, section teams: the two enable_ keys
    teams_sent,    \* the messages handed to send(), in order
    teams_printed, \* what the plugin printed instead: printme() and [CRITICAL]
    tm_pc,         \* where the playbook run is: new, start, tasks, end
    tm_self,       \* the CallbackModule object's fields
    tm_stats       \* the stats handed to playbook_on_stats, if any

jcVars == <<params, env, check_mode, keystore, ksExists, pc, cert_present,
            after_delete, proxy_opts, fetch_out, cmdLog, result, run, ks0, prev>>
pfVars == <<pf_params, pf_check_mode, pf_host, pf_enabled, pf_rules, pf_pc,
            active_pf, pf_cmds, pf_result>>

fcVars == <<fc_params, fc_check_mode, fc_bin, fc_pc, fc_locals, fc_cmds,
            fc_result>>

auVars == <<audit_ini, csv_file, au_pc, au_self, au_run, au_stats>>

tmVars == <<teams_ini, teams_sent, teams_printed, tm_pc, tm_self, tm_stats>>

vars == <<jcVars, pfVars, fcVars, auVars, tmVars>>

\* what an invocation of one program leaves alone: the other programs
notJavaCert == <<pfVars, fcVars, auVars, tmVars>>
notPf == <<jcVars, fcVars, auVars, tmVars>>
notFreshclam == <<jcVars, pfVars, auVars, tmVars>>
notAudit == <<jcVars, pfVars, fcVars, tmVars>>
notTeams == <<jcVars, pfVars, fcVars, auVars>>

(***************************************************************************)
(* Bounds                                                                  *)
(***************************************************************************)
\* successive invocations with the same parameters (play run again)
MaxRuns == 2
\* exit codes of external commands range over 0..MaxRc
MaxRc == 2
\* longest no_proxy value of the proxy specification, in characters
MaxNoProxyLen == 5
\* largest exit code of the freshclam command (0, 1, 2 and one other)
MaxFreshclamRc == 3
\* playbook runs that write to the same CSV log file
MaxPlaybookRuns == 2
\* largest number of failed tasks of a host in the stats
MaxFailures == 1

ExitCodes == 0..MaxRc

(***************************************************************************)
(* Python values                                                           *)
(***************************************************************************)
\* Python's None for string-valued parameters
None == "<None>"
\* Python's None for strings modelled as character sequences
NoneS == <<"<None>">>

\* truthiness of a str-or-None value ("if path:", "x or y")
Truthy(v) == v # None /\ v # ""

\* python: a or b
Or(a, b) == IF Truthy(a) THEN a ELSE b

\* python: '%s' % v
Str(v) == IF v = None THEN "None" ELSE v

\* python: '%s\n' % v, a line of text
Line(v) == Str(v) \o "\n"

\* python: s.split(sep) for a one-character sep
RECURSIVE Split(_, _)
Split(s, sep) ==
    IF \A i \in 1..Len(s) : s[i] # sep
    THEN <<s>>
    ELSE LET k == CHOOSE i \in 1..Len(s) :
                      s[i] = sep /\ \A j \in 1..(i - 1) : s[j] # sep
         IN  <<SubSeq(s, 1, k - 1)>> \o Split(SubSeq(s, k + 1, Len(s)), sep)

\* python: sub in s
Contains(sub, s) ==
    \E i \in 1..(Len(s) - Len(sub) + 1) : SubSeq(s, i, i + Len(sub) - 1) = sub

\* python: s.replace(a, b) for one-character a and b
Replace(s, a, b) == [i \in 1..Len(s) |-> IF s[i] = a THEN b ELSE s[i]]

\* the same with the pattern anchored at the start only
ReSubDotFirstOnly(s, i) ==
    IF Len(s) > 0 /\ s[1] = "." THEN <<"*">> \o s ELSE s

\* python: re.sub(r'(^|\|)\.', r'\1*.', s)
RECURSIVE ReSubDot(_, _)
ReSubDot(s, i) ==
    IF i > Len(s) THEN <<>>
    ELSE IF s[i] = "." /\ (i = 1 \/ s[i - 1] = "|")
         THEN <<"*", ".">> \o ReSubDot(s, i + 1)
         ELSE <<s[i]>> \o ReSubDot(s, i + 1)

(***************************************************************************)
(* Inputs                                                                  *)
(***************************************************************************)
Urls    == {None, "host"}
Paths   == {None, "/crt"}
P12s    == {None, "/p12"}
Aliases == {None, "", "a"}
KsPaths == {None, "/ks"}
States  == {"absent", "present"}

\* https_proxy: unset, host:port, scheme://host:port
HttpsProxies == { NoneS,
                  <<"p", ":", "8">>,
                  <<"h", ":", "/", "p", ":", "8">> }
\* no_proxy: unset, ".i,.c"
NoProxies == { NoneS, <<".", "i", ",", ".", "c">> }

\* what the fetch command prints: the certificate of the remote host
Certs == {"pem1", "pem2"}

\* keystore contents at the start: the file does not exist, or it holds
\* an unrelated entry and possibly the entry the module is asked about
InitKeystores == { {"other"}, {"other", "a"}, {"other", "host"} }

Params == [ cert_url : Urls, cert_path : Paths, pkcs12_path : P12s,
            cert_alias : Aliases, force_update : BOOLEAN,
            trust_cacert : BOOLEAN, keystore_path : KsPaths,
            keystore_create : BOOLEAN, state : States ]

Envs == [ https_proxy : HttpsProxies, no_proxy : NoProxies ]

(***************************************************************************)
(* Results and commands                                                    *)
(***************************************************************************)
\* result(kind, at, kw, ...): kind is exit_json, fail_json or exception; at
\* names the call site; kw is the set of keyword arguments the call passes;
\* a field whose keyword is not passed holds its neutral value
Res(kind, at, kw, changed, msg, rc, stdout, stderr, error, before, after) ==
    [ kind |-> kind, at |-> at, kw |-> kw, changed |-> changed, msg |-> msg,
      rc |-> rc, stdout |-> stdout, stderr |-> stderr, error |-> error,
      before |-> before, after |-> after ]

NoResult == Res("none", "none", {}, FALSE, None, 0, None, None, None, None, None)

NoPrev == [ check_mode |-> FALSE, ks0 |-> {}, ks1 |-> {}, kind |-> "none",
            at |-> "none", changed |-> FALSE, mutating |-> 0, clean |-> FALSE ]

\* module.exit_json(changed=c)
ExitChanged(at, c) ==
    Res("exit_json", at, {"changed"}, c, None, 0, None, None, None, None, None)

\* module.fail_json(changed=False, msg=m)
FailMsg(at, m) ==
    Res("fail_json", at, {"changed", "msg"}, FALSE, m, 0, None, None, None, None, None)

\* AnsibleModule.run_command(check_rc=True) on a non-zero exit:
\* fail_json(cmd=, rc=, stdout=, stderr=, msg=)
FailCheckRc(at, rc, out, err) ==
    Res("fail_json", at, {"cmd", "rc", "stdout", "stderr", "msg"}, FALSE, err,
        rc, out, err, None, None, None)

\* an exception nobody catches: the process dies with a traceback
Unhandled(at) ==
    Res("exception", at, {}, FALSE, None, 0, None, None, None, None, None)

\* one entry of the command log
Cmd(op, alias, rc, trust, stdin, proxy) ==
    [ op |-> op, alias |-> alias, rc |-> rc, trust |-> trust,
      stdin |-> stdin, proxy |-> proxy ]

MutatingOps == {"delete", "printcert", "importcert", "importkeystore"}
ImportOps   == {"importcert", "importkeystore"}

Count(log, ops) == Cardinality({i \in 1..Len(log) : log[i].op \in ops})

(***************************************************************************)
(* java_cert: values main() derives from its parameters                    *)
(***************************************************************************)
\* cert_alias = module.params.get('cert_alias') or url
cert_alias == Or(params.cert_alias, params.cert_url)

\* the alias as it is formatted into a keytool command line
AliasArg == Str(cert_alias)

\* sources the operator set, as AnsibleModule counts them
NumSources ==
    Cardinality({f \in {"cert_url", "cert_path", "pkcs12_path"} : params[f] # None})

ArgSpecErrorNoExclusive ==
    IF params.keystore_path = None THEN "required together"
    ELSE IF NumSources = 0 THEN "one of required"
    ELSE None

\* AnsibleModule(...): mutually_exclusive, required_together (keystore_pass
\* is required, so keystore_path must come with it), required_one_of
ArgSpecError ==
    IF NumSources > 1 THEN "mutually exclusive"
    ELSE IF params.keystore_path = None THEN "required together"
    ELSE IF NumSources = 0 THEN "one of required"
    ELSE None

\* proxy_opts of import_cert_url, as the list of -J-D properties it holds
ProxyOpts(e) ==
    IF e.https_proxy = NoneS THEN <<>>
    ELSE LET parts == Split(e.https_proxy, ":")
             base  == << <<"https.proxyHost", parts[1]>>,
                         <<"https.proxyPort", parts[2]>> >>
         IN  IF e.no_proxy # NoneS
             THEN base \o << <<"http.nonProxyHosts",
                               ReSubDot(Replace(e.no_proxy, ",", "|"), 1)>> >>
             ELSE base

\* (proxy_host, proxy_port) = https_proxy.split(':') raises ValueError
ProxySplitRaises(e) ==
    e.https_proxy # NoneS /\ Len(Split(e.https_proxy, ":")) # 2

NotBuilt == [built |-> FALSE, args |-> <<>>]

(***************************************************************************)
(* The other programs while one program is looked at: not started          *)
(***************************************************************************)
\* pf: no exit_json or fail_json yet
PfNoResult ==
    [ kind |-> "none", changed |-> FALSE, action |-> None, rule_set |-> None,
      msg |-> None ]

PfNotStarted ==
    /\ pf_params = [config |-> "/etc/pf.conf", action |-> "reload", dry_run |-> FALSE]
    /\ pf_check_mode = FALSE
    /\ pf_host = [os_release |-> <<>>, pfctl_rc |-> 0]
    /\ pf_enabled = FALSE
    /\ pf_rules = "boot"
    /\ pf_pc = "off"
    /\ active_pf = FALSE
    /\ pf_cmds = <<>>
    /\ pf_result = PfNoResult

\* freshclam: no exit_json or fail_json yet
FcNoResult == [ kind |-> "none", changed |-> FALSE, meta |-> None, msg |-> <<>> ]

\* freshclam: rc_code, out and err are not bound before update_freshclam
Unbound == [ bound |-> FALSE, rc_code |-> 0, out |-> <<>>, err |-> <<>> ]

FreshclamNotStarted ==
    /\ fc_params = [update |-> TRUE]
    /\ fc_check_mode = FALSE
    /\ fc_bin = NoneS
    /\ fc_pc = "off"
    /\ fc_locals = Unbound
    /\ fc_cmds = <<>>
    /\ fc_result = FcNoResult

\* a field of a callback object that has not been assigned: reading it
\* raises AttributeError
Unset == "<unset>"

\* audit: the object before __init__ has run
AuditNoSelf ==
    [ audit_enable |-> Unset, playbook_name |-> Unset, executor |-> Unset,
      run_status |-> Unset, host |-> Unset ]

AuditNotStarted ==
    /\ audit_ini = [enable |-> None]
    /\ csv_file = <<>>
    /\ au_pc = "off"
    /\ au_self = AuditNoSelf
    /\ au_run = 1
    /\ au_stats = <<>>

\* msteams: the object before __init__ has run
TeamsNoSelf ==
    [ ms_teams_notify |-> Unset, ms_teams_start_notify |-> Unset,
      executor |-> Unset, task |-> Unset, debug |-> Unset, summary |-> Unset,
      host |-> Unset ]

TeamsNotStarted ==
    /\ teams_ini = [enable_notify |-> None, enable_start_notify |-> None]
    /\ teams_sent = <<>>
    /\ teams_printed = <<>>
    /\ tm_pc = "off"
    /\ tm_self = TeamsNoSelf
    /\ tm_stats = <<>>

(***************************************************************************)
(* java_cert: the invocation                                               *)
(***************************************************************************)
inputs == <<params, env, check_mode, run, ks0, prev, notJavaCert>>
store  == <<keystore, ksExists>>
locals == <<cert_present, after_delete, proxy_opts, fetch_out>>

\* exit_json / fail_json / traceback: the process ends
Finish(r) == pc' = "done" /\ result' = r

Goto(l) == pc' = l /\ result' = result

Ran(c) == cmdLog' = Append(cmdLog, c)

\* module.run_command(del_cmd, check_rc=True): a non-zero exit is fail_json
DeleteFailsNever(rc) == FALSE
DeleteFailsOnlyOnOne(rc) == rc = 1
DeleteFails(rc) == rc # 0

\* delete_cert: if module.check_mode: module.exit_json(changed=True)
DeleteDryRunOff == FALSE
DeleteDryRun == check_mode

\* check_cert_present: if check_rc == 0: return True; return False
CertPresentNever(rc) == FALSE
CertPresentUnlessOne(rc) == rc # 1
CertPresentFrom(rc) == rc = 0

\* main, state == 'absent': if cert_present: delete_cert(...)
DeleteWantedAlways == TRUE
DeleteWantedNever == FALSE
DeleteWanted == cert_present

\* main, alias present: if force_update: delete and import, else fail
OverwriteAlways == TRUE
Overwrite == params.force_update

\* the import function main calls for the source that is set, in the order
\* of its three if-blocks
ImportFor ==
    IF Truthy(params.pkcs12_path) THEN "import_pkcs12_path"
    ELSE IF Truthy(params.cert_path) THEN "import_cert_path"
    ELSE IF Truthy(params.cert_url) THEN "import_cert_url"
    ELSE None

\* where delete_cert goes on success when main calls it for state == 'absent':
\* module_exit keeps its default False, so delete_cert itself calls exit_json
AfterAbsentDeleteImport == ImportFor
AfterAbsentDelete == None

\* whether the import command of function fn ends in " -trustcacerts"
TrustFlagAll(fn) == params.trust_cacert
TrustFlag(fn) ==
    IF fn = "import_pkcs12_path" THEN FALSE ELSE params.trust_cacert

\* main: if not keystore_create: test_keystore(...), which fails when
\* keystore_path does not exist
KeystoreNeverMissing == FALSE
KeystoreMissing == ~params.keystore_create /\ ~ksExists

\* module.run_command(fetch_cmd, check_rc=True): a non-zero exit is fail_json
FetchFailsNever(rc) == FALSE
FetchFails(rc) == rc # 0

\* import_cert_url: run_command(import_cmd, data=fetch_out, ...)
ImportStdinNothing == None
ImportStdin == fetch_out

\* import_*: if import_rc == 0: exit_json(...) else: fail_json(...)
ImportOkAlways(rc) == TRUE
ImportOk(rc) == rc = 0

Init ==
    /\ params \in Params
    /\ env \in Envs
    /\ check_mode \in BOOLEAN
    /\ \/ ksExists = TRUE /\ keystore \in InitKeystores
       \/ ksExists = FALSE /\ keystore = {}
    /\ pc = "init"
    /\ cert_present = FALSE
    /\ after_delete = None
    /\ proxy_opts = NotBuilt
    /\ fetch_out = None
    /\ cmdLog = <<>>
    /\ result = NoResult
    /\ run = 1
    /\ ks0 = keystore
    /\ prev = NoPrev
    /\ PfNotStarted
    /\ FreshclamNotStarted
    /\ AuditNotStarted
    /\ TeamsNotStarted

\* main: module = AnsibleModule(argument_spec, required_one_of, ...)
Validate ==
    /\ pc = "init"
    /\ IF ArgSpecError # None
       THEN Finish(Res("fail_json", "argument_spec", {"msg"}, FALSE,
                       ArgSpecError, 0, None, None, None, None, None))
       ELSE Goto("alias_required")
    /\ UNCHANGED <<inputs, store, locals, cmdLog>>

\* main: if path and not cert_alias: module.fail_json(...)
RequireAlias ==
    /\ pc = "alias_required"
    /\ IF Truthy(params.cert_path) /\ ~Truthy(cert_alias)
       THEN Finish(FailMsg("alias_required", "requires alias argument"))
       ELSE Goto("test_keytool")
    /\ UNCHANGED <<inputs, store, locals, cmdLog>>

\* test_keytool: module.run_command(executable, check_rc=True)
TestKeytool ==
    /\ pc = "test_keytool"
    /\ \E rc \in ExitCodes :
          /\ Ran(Cmd("test", None, rc, FALSE, None, <<>>))
          /\ IF rc # 0
             THEN Finish(FailCheckRc("test_keytool", rc, "test.stdout", "test.stderr"))
             ELSE Goto("test_keystore")
    /\ UNCHANGED <<inputs, store, locals>>

\* main: if not keystore_create: test_keystore(module, keystore_path)
TestKeystore ==
    /\ pc = "test_keystore"
    /\ IF KeystoreMissing
       THEN Finish(FailMsg("test_keystore", "require existing keystore"))
       ELSE Goto("check_cert_present")
    /\ UNCHANGED <<inputs, store, locals, cmdLog>>

\* check_cert_present: keytool -list -alias; rc 0 is present, anything else absent
CheckCertPresent ==
    /\ pc = "check_cert_present"
    /\ \E rc \in ExitCodes :
          /\ (rc = 0) <=> (ksExists /\ AliasArg \in keystore)
          /\ Ran(Cmd("list", AliasArg, rc, FALSE, None, <<>>))
          /\ cert_present' = CertPresentFrom(rc)
    /\ Goto("dispatch")
    /\ UNCHANGED <<inputs, store, after_delete, proxy_opts, fetch_out>>

\* main: the if state == 'absent' / elif state == 'present' block
Dispatch ==
    /\ pc = "dispatch"
    /\ IF params.state = "absent"
       THEN IF DeleteWanted
            THEN Goto("delete_cert") /\ after_delete' = AfterAbsentDelete
            ELSE Finish(ExitChanged("main_end", FALSE)) /\ after_delete' = after_delete
       ELSE IF ImportFor = None
            THEN Finish(ExitChanged("main_end", FALSE)) /\ after_delete' = after_delete
            ELSE IF ~cert_present
                 THEN Goto(ImportFor) /\ after_delete' = after_delete
                 ELSE IF Overwrite
                      THEN Goto("delete_cert") /\ after_delete' = ImportFor
                      ELSE /\ Finish(FailMsg("conflict",
                                    "already present. Use force_update to overwrite."))
                           /\ after_delete' = after_delete
    /\ UNCHANGED <<inputs, store, cert_present, proxy_opts, fetch_out, cmdLog>>

\* delete_cert(module, executable, keystore_path, keystore_pass, alias, module_exit)
DeleteCert ==
    /\ pc = "delete_cert"
    /\ IF DeleteDryRun
       THEN /\ Finish(ExitChanged("delete_cert_check", TRUE))
            /\ UNCHANGED <<store, cmdLog>>
       ELSE \E rc \in ExitCodes :
               /\ Ran(Cmd("delete", AliasArg, rc, FALSE, None, <<>>))
               /\ IF DeleteFails(rc)
                  THEN /\ Finish(FailCheckRc("delete_cert", rc, "delete.stdout",
                                             "delete.stderr"))
                       /\ UNCHANGED store
                  ELSE /\ keystore' = IF rc = 0 THEN keystore \ {AliasArg} ELSE keystore
                       /\ UNCHANGED ksExists
                       /\ IF after_delete = None
                          THEN Finish(Res("exit_json", "delete_cert",
                                          {"changed", "msg", "rc", "cmd", "stdout",
                                           "error", "diff"},
                                          TRUE, "delete.stdout", rc, "delete.stdout",
                                          None, "delete.stderr", Line(AliasArg), None))
                          ELSE Goto(after_delete)
    /\ UNCHANGED <<inputs, locals>>

\* import_cert_url up to "if module.check_mode": reads the environment,
\* builds proxy_opts and the two command lines
ImportCertUrlPrepare ==
    /\ pc = "import_cert_url"
    /\ IF ProxySplitRaises(env)
       THEN Finish(Unhandled("import_cert_url")) /\ UNCHANGED proxy_opts
       ELSE /\ proxy_opts' = [built |-> TRUE, args |-> ProxyOpts(env)]
            /\ IF check_mode
               THEN Finish(ExitChanged("import_cert_url_check", TRUE))
               ELSE Goto("fetch")
    /\ UNCHANGED <<inputs, store, cert_present, after_delete, fetch_out, cmdLog>>

\* import_cert_url: module.run_command(fetch_cmd, check_rc=True)
FetchCert ==
    /\ pc = "fetch"
    /\ \E rc \in ExitCodes :
          /\ Ran(Cmd("printcert", None, rc, FALSE, None, proxy_opts.args))
          /\ IF FetchFails(rc)
             THEN /\ Finish(FailCheckRc("fetch", rc, "fetch.stdout", "fetch.stderr"))
                  /\ UNCHANGED fetch_out
             ELSE /\ fetch_out' \in Certs
                  /\ Goto("import_url")
    /\ UNCHANGED <<inputs, store, cert_present, after_delete, proxy_opts>>

\* keytool's effect on the keystore file when an import exits with rc
Imported(rc) ==
    IF rc = 0
    THEN keystore' = keystore \cup {AliasArg} /\ ksExists' = TRUE
    ELSE UNCHANGED store

\* import_cert_url: module.run_command(import_cmd, data=fetch_out) and the result
ImportCertUrl ==
    /\ pc = "import_url"
    /\ \E rc \in ExitCodes :
          /\ Ran(Cmd("importcert", AliasArg, rc, TrustFlag("import_cert_url"), ImportStdin, <<>>))
          /\ Imported(rc)
          /\ IF ImportOk(rc)
             THEN Finish(Res("exit_json", "import_cert_url",
                             {"changed", "msg", "rc", "cmd", "stdout", "diff"},
                             TRUE, "import.stdout", rc, "import.stdout", None, None,
                             Line(""), Line(AliasArg)))
             ELSE Finish(Res("fail_json", "import_cert_url",
                             {"msg", "rc", "cmd", "error"},
                             FALSE, "import.stdout", rc, None, None, "import.stderr",
                             None, None))
    /\ UNCHANGED <<inputs, locals>>

\* import_cert_path(module, executable, path, keystore_path, keystore_pass, alias, trust_cacert)
ImportCertPath ==
    /\ pc = "import_cert_path"
    /\ IF check_mode
       THEN /\ Finish(ExitChanged("import_cert_path_check", TRUE))
            /\ UNCHANGED <<store, cmdLog>>
       ELSE \E rc \in ExitCodes :
               /\ Ran(Cmd("importcert", AliasArg, rc, TrustFlag("import_cert_path"), None, <<>>))
               /\ Imported(rc)
               /\ IF ImportOk(rc)
                  THEN Finish(Res("exit_json", "import_cert_path",
                                  {"changed", "msg", "rc", "cmd", "stdout", "error", "diff"},
                                  TRUE, "import.stdout", rc, "import.stdout", None,
                                  "import.stderr", Line(""), Line(AliasArg)))
                  ELSE Finish(Res("fail_json", "import_cert_path",
                                  {"msg", "rc", "cmd"},
                                  FALSE, "import.stdout", rc, None, None, None,
                                  None, None))
    /\ UNCHANGED <<inputs, locals>>

\* import_pkcs12_path(module, executable, path, keystore_path, keystore_pass,
\*                    pkcs12_pass, pkcs12_alias, alias)
ImportPkcs12Path ==
    /\ pc = "import_pkcs12_path"
    /\ IF check_mode
       THEN /\ Finish(ExitChanged("import_pkcs12_path_check", TRUE))
            /\ UNCHANGED <<store, cmdLog>>
       ELSE \E rc \in ExitCodes :
               /\ Ran(Cmd("importkeystore", AliasArg, rc, TrustFlag("import_pkcs12_path"), None, <<>>))
               /\ Imported(rc)
               /\ IF ImportOk(rc)
                  THEN Finish(Res("exit_json", "import_pkcs12_path",
                                  {"changed", "msg", "rc", "cmd", "stdout", "error", "diff"},
                                  TRUE, "import.stdout", rc, "import.stdout", None,
                                  "import.stderr", Line(""), Line(AliasArg)))
                  ELSE Finish(Res("fail_json", "import_pkcs12_path",
                                  {"msg", "rc", "cmd"},
                                  FALSE, "import.stdout", rc, None, None, None,
                                  None, None))
    /\ UNCHANGED <<inputs, locals>>

\* every command of the log other than the presence check exited 0
AllExitedZero(log) == \A i \in 1..Len(log) : log[i].op = "list" \/ log[i].rc = 0

\* the play is run again with the same parameters and environment, in check
\* mode or not, on the keystore the last invocation left
RunAgain ==
    /\ pc = "done"
    /\ run < MaxRuns
    /\ run' = run + 1
    /\ prev' = [ check_mode |-> check_mode, ks0 |-> ks0, ks1 |-> keystore,
                 kind |-> result.kind, at |-> result.at,
                 changed |-> result.changed,
                 mutating |-> Count(cmdLog, MutatingOps),
                 clean |-> AllExitedZero(cmdLog) ]
    /\ check_mode' \in BOOLEAN
    /\ ks0' = keystore
    /\ pc' = "init"
    /\ cert_present' = FALSE
    /\ after_delete' = None
    /\ proxy_opts' = NotBuilt
    /\ fetch_out' = None
    /\ cmdLog' = <<>>
    /\ result' = NoResult
    /\ UNCHANGED <<params, env, store, notJavaCert>>

Next ==
    \/ Validate
    \/ RequireAlias
    \/ TestKeytool
    \/ TestKeystore
    \/ CheckCertPresent
    \/ Dispatch
    \/ DeleteCert
    \/ ImportCertUrlPrepare
    \/ FetchCert
    \/ ImportCertUrl
    \/ ImportCertPath
    \/ ImportPkcs12Path
    \/ RunAgain

Spec == Init /\ [][Next]_vars

\* java_cert while another program is looked at: not started
JavaCertNotStarted ==
    /\ params = [ cert_url |-> None, cert_path |-> None, pkcs12_path |-> None,
                  cert_alias |-> None, force_update |-> FALSE,
                  trust_cacert |-> FALSE, keystore_path |-> None,
                  keystore_create |-> FALSE, state |-> "present" ]
    /\ env = [https_proxy |-> NoneS, no_proxy |-> NoneS]
    /\ check_mode = FALSE
    /\ ksExists = FALSE /\ keystore = {}
    /\ pc = "off"
    /\ cert_present = FALSE
    /\ after_delete = None
    /\ proxy_opts = NotBuilt
    /\ fetch_out = None
    /\ cmdLog = <<>>
    /\ result = NoResult
    /\ run = 1
    /\ ks0 = keystore
    /\ prev = NoPrev

(***************************************************************************)
(* java_cert: vocabulary of the properties                                 *)
(***************************************************************************)
Done == pc = "done"

\* indices of the commands of the current invocation with an op in ops
Idx(ops) == {i \in 1..Len(cmdLog) : cmdLog[i].op \in ops}

nDelete == Cardinality(Idx({"delete"}))
nFetch  == Cardinality(Idx({"printcert"}))
nImport == Cardinality(Idx(ImportOps))
nMutating == Cardinality(Idx(MutatingOps))

\* the presence check of the current invocation has run and main has acted on it
Decided == Idx({"list"}) # {} /\ pc # "dispatch"

\* the alias was in the keystore when the invocation started
WasPresent == AliasArg \in ks0

\* exactly one source is set
OneSource == NumSources = 1

IsUrl == ImportFor = "import_cert_url"

\* a command with an op in ops ran and exited 0
RanOk(ops) == \E i \in Idx(ops) : cmdLog[i].rc = 0

(***************************************************************************)
(* C1: force-update.  Not in check mode, state=present, alias present,     *)
(* force_update=true, for each source: at most one delete and one import   *)
(* are run, an import runs only after a delete of the same alias that      *)
(* exited 0, the delete is run exactly once by the end of the invocation,  *)
(* and the import is run exactly once by the end exactly when the delete   *)
(* exited 0 (and, for a URL, the fetch ran and exited 0); a successful     *)
(* invocation has run exactly one delete and then exactly one import.      *)
(***************************************************************************)
ForceUpdateCase ==
    /\ ~check_mode /\ params.state = "present" /\ params.force_update
    /\ OneSource /\ Decided /\ WasPresent

C2_DryRunRunsNoMutatingCommand ==
    check_mode => nMutating = 0 /\ keystore = ks0

C2_Witness ==
    /\ check_mode /\ Done /\ Decided /\ WasPresent
    /\ params.state = "present" /\ params.force_update
    /\ result.kind = "exit_json" /\ result.changed
    /\ nMutating = 0 /\ keystore = ks0

(***************************************************************************)
(* C3: check mode agrees with the real run.  A check-mode invocation and   *)
(* the real invocation that follows it on the same keystore, with the same *)
(* parameters and environment and with every command exiting 0, end in the *)
(* same kind of result at the same kind of place with the same changed     *)
(* value.                                                                  *)
(***************************************************************************)
\* the kind of outcome a call site stands for
OutcomeKind(kind, at) ==
    IF kind = "exit_json" THEN "success"
    ELSE IF kind = "exception" THEN "unhandled exception"
    ELSE IF at \in {"argument_spec", "alias_required"} THEN "ConfigurationError"
    ELSE IF at = "test_keystore" THEN "PreconditionError"
    ELSE IF at = "conflict" THEN "ConflictError"
    ELSE "ExecutionError"

\* the previous invocation was a check-mode run, this one is the real run on
\* the same keystore, and every command of both exited 0
DryThenReal ==
    /\ run >= 2 /\ prev.check_mode /\ prev.clean /\ prev.ks0 = ks0
    /\ ~check_mode /\ Done /\ AllExitedZero(cmdLog)

C3_DryRunAgreesWithRealRun ==
    DryThenReal =>
        /\ OutcomeKind(prev.kind, prev.at) = OutcomeKind(result.kind, result.at)
        /\ prev.changed = result.changed

(***************************************************************************)
(* C4: conflict.  state=present, alias present, force_update=false, for    *)
(* every source, in check mode and not: once main has acted on the         *)
(* presence check the invocation has ended in fail_json(changed=False)     *)
(* with the "Use force_update to overwrite" message, and no delete, fetch  *)
(* or import command has run.                                              *)
(***************************************************************************)
ConflictCase ==
    /\ params.state = "present" /\ ~params.force_update
    /\ OneSource /\ Decided /\ WasPresent

SecondOfTwo ==
    /\ run >= 2 /\ ~prev.check_mode /\ ~check_mode
    /\ params.state = "present" /\ ~params.force_update
    /\ AliasArg \notin prev.ks0 /\ prev.ks1 = ks0
    /\ prev.kind = "exit_json"

AbsentAbsentCase ==
    params.state = "absent" /\ OneSource /\ ~WasPresent

C6_AbsentOnAbsentIsNoOp ==
    AbsentAbsentCase =>
        /\ nMutating = 0 /\ keystore = ks0
        /\ Decided =>
               /\ Done
               /\ result.kind = "exit_json"
               /\ "changed" \in result.kw /\ ~result.changed

C6_Witness ==
    /\ AbsentAbsentCase /\ Decided /\ Done /\ ~check_mode
    /\ params.force_update /\ IsUrl
    /\ result.kind = "exit_json" /\ ~result.changed

(***************************************************************************)
(* C7: not in check mode, state=absent, alias present: no fetch and no     *)
(* import command is run whatever the source; by the end exactly one       *)
(* delete command has run, for that alias; if it exited 0 the result is    *)
(* exit_json(changed=True) and the alias is gone, otherwise the result is  *)
(* a failure.                                                              *)
(***************************************************************************)
RemoveCase ==
    /\ ~check_mode /\ params.state = "absent"
    /\ OneSource /\ Decided /\ WasPresent

C7_AbsentOnPresentDeletesOnce ==
    RemoveCase =>
        /\ nFetch = 0 /\ nImport = 0 /\ nDelete <= 1
        /\ \A i \in Idx({"delete"}) : cmdLog[i].alias = AliasArg
        /\ Done =>
              /\ nDelete = 1
              /\ RanOk({"delete"}) =>
                    /\ result.kind = "exit_json" /\ result.changed
                    /\ AliasArg \notin keystore
              /\ ~RanOk({"delete"}) =>
                    /\ result.kind = "fail_json"
                    /\ keystore = ks0

C7_Witness ==
    /\ RemoveCase /\ Done /\ ImportFor = "import_cert_path"
    /\ RanOk({"delete"}) /\ result.changed /\ AliasArg \notin keystore

C7_WitnessDeleteFails ==
    /\ RemoveCase /\ Done /\ nDelete = 1 /\ ~RanOk({"delete"})
    /\ result.kind = "fail_json"

(***************************************************************************)
(* C8: not in check mode, state=present, alias absent: no delete is run    *)
(* and at most one import; a local path (or PKCS12) source runs no fetch;  *)
(* by the end exactly one import has run, unless the source is a URL and   *)
(* no fetch exited 0; the import names the alias and carries the CA-trust  *)
(* flag exactly when trust_cacert is set and the source is a URL or a      *)
(* local path; when the import exited 0 the result is                      *)
(* exit_json(changed=True) with diff before = an empty line and            *)
(* after = the alias.                                                      *)
(***************************************************************************)
ImportCase ==
    /\ ~check_mode /\ params.state = "present"
    /\ OneSource /\ Decided /\ ~WasPresent

C9_SourceCountIsValidatedFirst ==
    NumSources # 1 =>
        /\ cmdLog = <<>>
        /\ pc \in {"init", "done"}
        /\ Done =>
              /\ result.at = "argument_spec"
              /\ OutcomeKind(result.kind, result.at) = "ConfigurationError"

C9_Witness ==
    /\ NumSources = 2 /\ Done /\ params.state = "absent"
    /\ params.keystore_path # None
    /\ OutcomeKind(result.kind, result.at) = "ConfigurationError"

(***************************************************************************)
(* C10: alias invariant.  Whenever a command has been run the alias is a   *)
(* non-empty string set by the operator; with no cert_alias and a local    *)
(* path or PKCS12 source the invocation is rejected with a configuration   *)
(* failure before any command.                                             *)
(***************************************************************************)
C10_AliasNonEmptyWhenCommandRuns ==
    /\ cmdLog # <<>> => Truthy(cert_alias)
    /\ ( /\ OneSource /\ ~Truthy(params.cert_alias)
         /\ ImportFor \in {"import_cert_path", "import_pkcs12_path"} ) =>
           /\ cmdLog = <<>>
           /\ Done => OutcomeKind(result.kind, result.at) = "ConfigurationError"

(***************************************************************************)
(* C11: keystore precondition.  With keystore_create false and no file at  *)
(* keystore_path, the presence check and every delete, fetch and import    *)
(* are never run, and an invocation that got past the keytool test has     *)
(* ended in fail_json(changed=False), a PreconditionError; with            *)
(* keystore_create true no invocation ends at the existence check.         *)
(***************************************************************************)
\* main's positions before the existence check has been passed
BeforePresence == {"init", "alias_required", "test_keytool", "test_keystore"}

NoKeystoreCase == ~params.keystore_create /\ ~ksExists

C11_MissingKeystoreIsPreconditionError ==
    /\ NoKeystoreCase =>
          /\ Idx({"list"}) = {} /\ nMutating = 0
          /\ pc \in BeforePresence \cup {"done"}
          /\ (Done /\ RanOk({"test"})) =>
                /\ result.kind = "fail_json" /\ result.at = "test_keystore"
                /\ "changed" \in result.kw /\ ~result.changed
                /\ OutcomeKind(result.kind, result.at) = "PreconditionError"
    /\ params.keystore_create => result.at # "test_keystore"

C11_Witness ==
    /\ NoKeystoreCase /\ Done /\ RanOk({"test"})
    /\ params.state = "present" /\ ~check_mode
    /\ OutcomeKind(result.kind, result.at) = "PreconditionError"

\* keystore_create is set and the file is missing: the presence check runs
C11_WitnessCreate ==
    /\ params.keystore_create /\ ks0 = {} /\ ~ksExists
    /\ Idx({"list"}) # {}

(***************************************************************************)
(* C12: presence check.  In every invocation that got past validation and  *)
(* the keystore precondition, in check mode and not, the presence check    *)
(* has run exactly once, before any delete, fetch or import; main takes    *)
(* the alias as present exactly when the check exited 0, and a non-zero    *)
(* exit never ends the invocation.                                         *)
(***************************************************************************)
PassedPrecondition ==
    /\ pc \notin BeforePresence \cup {"check_cert_present"}
    /\ Done => result.at \notin {"argument_spec", "alias_required",
                                 "test_keytool", "test_keystore"}

C12_PresenceCheckedOnceAndFirst ==
    /\ Cardinality(Idx({"list"})) <= 1
    /\ PassedPrecondition => Cardinality(Idx({"list"})) = 1
    /\ \A i \in Idx(MutatingOps) : \E j \in Idx({"list"}) : j < i
    /\ \A j \in Idx({"list"}) :
          /\ cert_present <=> (cmdLog[j].rc = 0)
          /\ (cmdLog[j].rc # 0 /\ pc = "dispatch") => result = NoResult

C12_Witness ==
    /\ check_mode /\ Done /\ PassedPrecondition
    /\ \E j \in Idx({"list"}) : cmdLog[j].rc = 2
    /\ ~cert_present /\ result.kind = "exit_json"

(***************************************************************************)
(* java_cert: import_cert_url on its own, over all short proxy settings    *)
(***************************************************************************)
\* all strings over alphabet A of at most n characters
StringsUpTo(A, n) == UNION { [1..k -> A] : k \in 0..n }

\* https_proxy: unset, empty, host:port, scheme://host:port
ProxyEndpoints == HttpsProxies \cup { <<>> }

\* no_proxy: unset, or any short list of patterns
ProxyExclusions == { NoneS } \cup StringsUpTo({".", "i", "c", ","}, MaxNoProxyLen)

\* main has found the alias of a URL source absent and calls import_cert_url
InitProxy ==
    /\ params = [ cert_url |-> "host", cert_path |-> None, pkcs12_path |-> None,
                  cert_alias |-> "a", force_update |-> FALSE,
                  trust_cacert |-> FALSE, keystore_path |-> "/ks",
                  keystore_create |-> FALSE, state |-> "present" ]
    /\ env \in [ https_proxy : ProxyEndpoints, no_proxy : ProxyExclusions ]
    /\ check_mode \in BOOLEAN
    /\ ksExists = TRUE /\ keystore = {"other"}
    /\ pc = "import_cert_url"
    /\ cert_present = FALSE
    /\ after_delete = None
    /\ proxy_opts = NotBuilt
    /\ fetch_out = None
    /\ cmdLog = << Cmd("test", None, 0, FALSE, None, <<>>),
                   Cmd("list", "a", 1, FALSE, None, <<>>) >>
    /\ result = NoResult
    /\ run = 1
    /\ ks0 = keystore
    /\ prev = NoPrev
    /\ PfNotStarted
    /\ FreshclamNotStarted
    /\ AuditNotStarted
    /\ TeamsNotStarted

NextProxy ==
    \/ ImportCertUrlPrepare
    \/ FetchCert
    \/ ImportCertUrl

SpecProxy == InitProxy /\ [][NextProxy]_vars

(***************************************************************************)
(* C13: proxy arguments.  With https_proxy unset no proxy argument is      *)
(* emitted, whatever no_proxy is; with https_proxy = host:port the         *)
(* proxy-host and proxy-port arguments are emitted; the exclusion argument *)
(* is emitted exactly when both are set, and it is the comma-separated     *)
(* patterns of no_proxy in their order, each one that begins with '.'      *)
(* prefixed with '*', the others unchanged, joined with '|'.  The fetch    *)
(* command carries exactly these arguments.                                *)
(***************************************************************************)
\* a pattern with '*' put in front when it begins with '.'
Starred(p) == IF Len(p) > 0 /\ p[1] = "." THEN <<"*">> \o p ELSE p

RECURSIVE JoinBar(_)
JoinBar(ps) ==
    IF Len(ps) = 1 THEN ps[1]
    ELSE ps[1] \o <<"|">> \o JoinBar(Tail(ps))

\* the exclusion argument the claim describes
ExpectedExclusion(np) ==
    LET pats == Split(np, ",")
    IN  JoinBar([i \in 1..Len(pats) |-> Starred(pats[i])])

C13_ProxyArguments ==
    proxy_opts.built =>
        LET a  == proxy_opts.args
            hp == env.https_proxy
            np == env.no_proxy
        IN  /\ hp = NoneS => a = <<>>
            /\ hp # NoneS =>
                  \E k \in 1..Len(hp) :
                      /\ hp[k] = ":"
                      /\ Len(a) >= 2
                      /\ a[1] = <<"https.proxyHost", SubSeq(hp, 1, k - 1)>>
                      /\ a[2] = <<"https.proxyPort", SubSeq(hp, k + 1, Len(hp))>>
            /\ (\E i \in 1..Len(a) : a[i][1] = "http.nonProxyHosts")
                   <=> (hp # NoneS /\ np # NoneS)
            /\ (hp # NoneS /\ np # NoneS) =>
                  /\ Len(a) = 3
                  /\ a[3] = <<"http.nonProxyHosts", ExpectedExclusion(np)>>
            /\ (hp # NoneS /\ np = NoneS) => Len(a) = 2
            /\ \A i \in Idx({"printcert"}) : cmdLog[i].proxy = a

\* ".i,.c" with proxy p:8 gives "*.i|*.c", and the fetch has run with it
C13_Witness ==
    /\ env.https_proxy = <<"p", ":", "8">>
    /\ env.no_proxy = <<".", "i", ",", ".", "c">>
    /\ Idx({"printcert"}) # {}
    /\ proxy_opts.args[3] =
           <<"http.nonProxyHosts", <<"*", ".", "i", "|", "*", ".", "c">> >>

\* no_proxy is set and https_proxy is not: import_cert_url builds no argument
C13_WitnessExclusionOnly ==
    /\ proxy_opts.built /\ env.https_proxy = NoneS /\ env.no_proxy # NoneS
    /\ proxy_opts.args = <<>>

(***************************************************************************)
(* C14: remote source, not in check mode.  A fetch command is run only for *)
(* a URL source, at most once and before the import; after a fetch that    *)
(* exited non-zero no import is run and the invocation has ended in a      *)
(* failure; an import of a URL source follows a fetch that exited 0 and    *)
(* gets that fetch's standard output on its standard input.                *)
(***************************************************************************)
C14_FetchThenImportOnStdin ==
    ~check_mode =>
        /\ nFetch <= 1
        /\ nFetch = 1 => IsUrl
        /\ \A i \in Idx({"printcert"}) :
              /\ \A j \in Idx(ImportOps) : i < j
              /\ cmdLog[i].rc # 0 =>
                    /\ nImport = 0 /\ Done
                    /\ result.kind = "fail_json" /\ result.at = "fetch"
              /\ cmdLog[i].rc = 0 => fetch_out \in Certs
        /\ IsUrl =>
              \A j \in Idx(ImportOps) :
                  /\ RanOk({"printcert"})
                  /\ cmdLog[j].stdin = fetch_out

C14_Witness ==
    /\ ~check_mode /\ IsUrl /\ Done
    /\ nFetch = 1 /\ nImport = 1
    /\ cmdLog[Len(cmdLog)].stdin = "pem2" /\ fetch_out = "pem2"

C14_WitnessFetchFails ==
    /\ ~check_mode /\ IsUrl /\ Done
    /\ nFetch = 1 /\ ~RanOk({"printcert"}) /\ nImport = 0
    /\ result.at = "fetch"

(***************************************************************************)
(* C15: failures are terminal.  A delete, fetch or import command that     *)
(* exited non-zero is the last command of its invocation, and the          *)
(* invocation has ended in fail_json.                                      *)
(***************************************************************************)
C15_CommandFailureIsTerminal ==
    \A i \in Idx(MutatingOps) :
        cmdLog[i].rc # 0 =>
            /\ i = Len(cmdLog)
            /\ Done
            /\ result.kind = "fail_json"
            /\ OutcomeKind(result.kind, result.at) = "ExecutionError"
            /\ result.rc = cmdLog[i].rc

C15_Witness ==
    /\ Done /\ nDelete = 1 /\ RanOk({"delete"})
    /\ cmdLog[Len(cmdLog)].op = "importkeystore"
    /\ cmdLog[Len(cmdLog)].rc # 0
    /\ result.kind = "fail_json"

(***************************************************************************)
(* C16: partial failure of force-update.  When the delete has exited 0 and *)
(* the fetch or the import after it exits non-zero, the invocation has     *)
(* ended in fail_json, the keystore is what it was less the alias, and the *)
(* failed command is the last one run: nothing is imported again.          *)
(***************************************************************************)
PartialFailure ==
    /\ ForceUpdateCase /\ RanOk({"delete"})
    /\ \E i \in Idx({"printcert"} \cup ImportOps) : cmdLog[i].rc # 0

C16_NoRollbackAfterFailedReimport ==
    PartialFailure =>
        /\ Done /\ result.kind = "fail_json"
        /\ AliasArg \notin keystore
        /\ keystore = ks0 \ {AliasArg}
        /\ cmdLog[Len(cmdLog)].rc # 0
        /\ nDelete = 1 /\ nImport <= 1 /\ nFetch <= 1

C16_Witness ==
    /\ PartialFailure /\ Done /\ ImportFor = "import_cert_path"
    /\ nImport = 1 /\ AliasArg \in ks0 /\ AliasArg \notin keystore
    /\ result.kind = "fail_json"

(***************************************************************************)
(* C17: failure payload.  Every fail_json caused by an import command      *)
(* exiting non-zero carries the captured standard output and the captured  *)
(* standard error of that command, for all three sources.                  *)
(***************************************************************************)
ImportSites == {"import_cert_url", "import_cert_path", "import_pkcs12_path"}

\* the values a result hands back to the caller
Payload(r) == {r.msg, r.stdout, r.stderr, r.error}

C17_ImportFailureCarriesOutAndErr ==
    (Done /\ result.kind = "fail_json" /\ result.at \in ImportSites) =>
        /\ "import.stdout" \in Payload(result)
        /\ "import.stderr" \in Payload(result)

(***************************************************************************)
(* C18: diff.  In every successful outcome of an invocation not in check   *)
(* mode, diff.before names the alias exactly when the alias was in the     *)
(* keystore at the start, and diff.after names it exactly when it is in    *)
(* the keystore at the end.                                                *)
(***************************************************************************)
C18_DiffTellsPresenceBeforeAndAfter ==
    (~check_mode /\ Done /\ result.kind = "exit_json") =>
        /\ (result.before = Line(AliasArg)) <=> WasPresent
        /\ (result.after = Line(AliasArg)) <=> (AliasArg \in keystore)

(***************************************************************************)
(* C19: termination.  Every invocation that has not ended can take a step, *)
(* and one that has ended holds a result that is a success or one of the   *)
(* declared error kinds, never an unhandled exception.                     *)
(***************************************************************************)
DeclaredOutcomes ==
    {"success", "ConfigurationError", "PreconditionError", "ConflictError",
     "ExecutionError"}

C19_EndsInDeclaredOutcome ==
    /\ ~Done => result = NoResult /\ ENABLED Next
    /\ Done => OutcomeKind(result.kind, result.at) \in DeclaredOutcomes

C25_ProxyBuiltBeforeAnyCommand ==
    \A i \in Idx({"list"} \cup MutatingOps) : proxy_opts.built

(***************************************************************************)
(* C25, as the code has it: the proxy settings are read and parsed at most *)
(* once per invocation and never change afterwards; they are read only by  *)
(* an invocation that imports from a URL, after its presence check and,    *)
(* when the alias was present, after the delete of a force-update has      *)
(* exited 0; the fetch and the import of a URL run only after the read.    *)
(***************************************************************************)
ProxyReadInPlace ==
    /\ proxy_opts.built =>
          /\ IsUrl /\ params.state = "present"
          /\ pc \in {"fetch", "import_url", "done"}
          /\ \E j \in Idx({"list"}) :
                cmdLog[j].rc = 0 =>
                    \E k \in Idx({"delete"}) : j < k /\ cmdLog[k].rc = 0
    /\ \A i \in Idx({"printcert"}) : proxy_opts.built
    /\ IsUrl => \A i \in Idx(ImportOps) : proxy_opts.built
    /\ ~IsUrl => ~proxy_opts.built

ProxyReadOnce ==
    proxy_opts.built => (proxy_opts' = proxy_opts \/ run' # run)

C25_ProxyReadOnceInUrlImport ==
    []ProxyReadInPlace /\ [][ProxyReadOnce]_vars

C25_Witness ==
    /\ ForceUpdateCase /\ IsUrl /\ Done
    /\ proxy_opts.built
    /\ nDelete = 1 /\ nFetch = 1 /\ nImport = 1
    /\ \E k \in Idx({"delete"}) : \A i \in Idx({"printcert"}) : k < i

(***************************************************************************)
(* pf: inputs                                                              *)
(***************************************************************************)
PfConfigs == {"/etc/pf.conf"}
PfActions == {"start", "stop", "restart", "reload"}

PfParams == [ config : PfConfigs, action : PfActions, dry_run : BOOLEAN ]

\* stdout of cat /etc/os-release: a BSD, a Linux, no such file
OsReleases == { <<"F", "r", "e", "e", "B", "S", "D">>, <<"L", "i", "n", "u", "x">>, <<>> }

PfHosts == [ os_release : OsReleases, pfctl_rc : ExitCodes ]

\* stdout of pfctl -vnf / pfctl -f
PfctlOuts == {"", "pass in all"}

\* main: out = "No information available for this action."
NoInformation == "No information available for this action."

(***************************************************************************)
(* pf: results and commands                                                *)
(***************************************************************************)
\* module.exit_json(changed=changed, meta={"action": action, "rule_set": out})
PfExit(changed, out) ==
    [ kind |-> "exit_json", changed |-> changed, action |-> pf_params.action,
      rule_set |-> out, msg |-> None ]

\* module.fail_json(msg=f'Error: Could not {exec_opt} pf.')
PfFail(msg) ==
    [ kind |-> "fail_json", changed |-> FALSE, action |-> None,
      rule_set |-> None, msg |-> msg ]

CouldNot(exec_opt) == "Error: Could not " \o exec_opt \o " pf."

\* one entry of the command log; stdout is kept for pfctl only (that of cat
\* and of service pf status is given by pf_host and pf_enabled)
PfCmd(argv, rc, out) == [ argv |-> argv, rc |-> rc, stdout |-> out ]

PfFinish(r) == pf_pc' = "done" /\ pf_result' = r

PfGoto(l) == pf_pc' = l /\ pf_result' = pf_result

\* stdout of service pf status
StatusOut(enabled) == IF enabled THEN <<"S", "t", "a", "t", "u", "s", ":", " ", "E", "n", "a", "b", "l", "e", "d">> ELSE <<"S", "t", "a", "t", "u", "s", ":", " ", "D", "i", "s", "a", "b", "l", "e", "d">>

\* status_pf: if 'Enabled' in out: return True, else: return False
StatusFrom(out) == Contains(<<"E", "n", "a", "b", "l", "e", "d">>, out)

\* _validate_os: if not 'BSD' in out
UnsupportedOs(out) == ~Contains(<<"B", "S", "D">>, out)

\* main: if action == 'start': if not active_pf
StartWanted == ~active_pf

\* main: if action == 'stop': if active_pf
StopWanted == active_pf

\* start_pf, stop_pf: error if rc != 0 or new_active_pf == active_pf
ServiceErrorRcOnly(rc, new_active_pf) == rc # 0
ServiceError(rc, new_active_pf) == rc # 0 \/ new_active_pf = active_pf

\* restart_pf: error if rc != 0 or new_active_pf != active_pf
RestartError(rc, new_active_pf) == rc # 0 \/ new_active_pf # active_pf

\* reload_pf: the pfctl command line
ReloadArgvApply(dry_run, config) == <<"pfctl", "-f", config>>
ReloadArgv(dry_run, config) ==
    IF dry_run THEN <<"pfctl", "-vnf", config>> ELSE <<"pfctl", "-f", config>>

\* main, action == 'reload': if not dry_run: changed = True
ReloadChanged(dry_run) == ~dry_run

\* what the host does with a command: service pf start/stop/restart may
\* leave the packet filter enabled or disabled whatever its exit code
\* (pf_enable unset in rc.conf, kernel module missing, rule set rejected);
\* pfctl -f loads the rule set when it exits 0
Service(exec_opt, rc, now) ==
    /\ pf_cmds' = pf_cmds \o << PfCmd(<<"service", "pf", exec_opt>>, rc, ""),
                               PfCmd(<<"service", "pf", "status">>, 0, "") >>
    /\ pf_enabled' = now

(***************************************************************************)
(* pf: the invocation                                                      *)
(***************************************************************************)
InitPf ==
    /\ pf_params \in PfParams
    /\ pf_check_mode \in BOOLEAN
    /\ pf_host \in PfHosts
    /\ pf_enabled \in BOOLEAN
    /\ pf_rules = "boot"
    /\ pf_pc = "validate_os"
    /\ active_pf = FALSE
    /\ pf_cmds = <<>>
    /\ pf_result = PfNoResult
    /\ JavaCertNotStarted
    /\ FreshclamNotStarted
    /\ AuditNotStarted
    /\ TeamsNotStarted

\* _validate_os
ValidateOs ==
    /\ pf_pc = "validate_os"
    /\ pf_cmds' = Append(pf_cmds, PfCmd(<<"cat", "/etc/os-release">>,
                                        IF pf_host.os_release = <<>> THEN 1 ELSE 0, ""))
    /\ IF UnsupportedOs(pf_host.os_release)
       THEN PfFinish(PfFail("Error: Unsupported OS. This can only be used on BSD systems."))
       ELSE PfGoto("validate_pf")
    /\ UNCHANGED <<pf_params, pf_check_mode, pf_host, pf_enabled, pf_rules,
                   active_pf, notPf>>

\* _validate_pf
ValidatePf ==
    /\ pf_pc = "validate_pf"
    /\ pf_cmds' = Append(pf_cmds, PfCmd(<<"ls", "/sbin/pfctl">>, pf_host.pfctl_rc, ""))
    /\ IF pf_host.pfctl_rc # 0
       THEN PfFinish(PfFail("Error: Unable to find pfctl binary."))
       ELSE PfGoto("status_pf")
    /\ UNCHANGED <<pf_params, pf_check_mode, pf_host, pf_enabled, pf_rules,
                   active_pf, notPf>>

\* main: active_pf = status_pf(module)
StatusPf ==
    /\ pf_pc = "status_pf"
    /\ pf_cmds' = Append(pf_cmds, PfCmd(<<"service", "pf", "status">>, 0, ""))
    /\ active_pf' = StatusFrom(StatusOut(pf_enabled))
    /\ PfGoto("action")
    /\ UNCHANGED <<pf_params, pf_check_mode, pf_host, pf_enabled, pf_rules, notPf>>

\* main, action == 'start' and start_pf
StartPf ==
    /\ pf_pc = "action" /\ pf_params.action = "start" /\ StartWanted
    /\ \E rc \in ExitCodes, now \in BOOLEAN :
          /\ Service("start", rc, now)
          /\ IF ServiceError(rc, StatusFrom(StatusOut(now)))
             THEN PfFinish(PfFail(CouldNot("start")))
             ELSE PfFinish(PfExit(TRUE, NoInformation))
    /\ UNCHANGED <<pf_params, pf_check_mode, pf_host, pf_rules, active_pf, notPf>>

\* main, action == 'stop' and stop_pf
StopPf ==
    /\ pf_pc = "action" /\ pf_params.action = "stop" /\ StopWanted
    /\ \E rc \in ExitCodes, now \in BOOLEAN :
          /\ Service("stop", rc, now)
          /\ IF ServiceError(rc, StatusFrom(StatusOut(now)))
             THEN PfFinish(PfFail(CouldNot("stop")))
             ELSE PfFinish(PfExit(TRUE, NoInformation))
    /\ UNCHANGED <<pf_params, pf_check_mode, pf_host, pf_rules, active_pf, notPf>>

\* main, action == 'start' on a running pf, action == 'stop' on a stopped
\* one: no branch is taken and main ends in exit_json(changed=False)
NothingToDo ==
    /\ pf_pc = "action"
    /\ \/ pf_params.action = "start" /\ ~StartWanted
       \/ pf_params.action = "stop" /\ ~StopWanted
    /\ PfFinish(PfExit(FALSE, NoInformation))
    /\ UNCHANGED <<pf_params, pf_check_mode, pf_host, pf_enabled, pf_rules,
                   active_pf, pf_cmds, notPf>>

\* main, action == 'restart' and restart_pf
RestartPf ==
    /\ pf_pc = "action" /\ pf_params.action = "restart"
    /\ \E rc \in ExitCodes, now \in BOOLEAN :
          /\ Service("restart", rc, now)
          /\ IF RestartError(rc, StatusFrom(StatusOut(now)))
             THEN PfFinish(PfFail(CouldNot("restart")))
             ELSE PfFinish(PfExit(TRUE, NoInformation))
    /\ UNCHANGED <<pf_params, pf_check_mode, pf_host, pf_rules, active_pf, notPf>>

\* main, action == 'reload' and reload_pf
ReloadPf ==
    /\ pf_pc = "action" /\ pf_params.action = "reload"
    /\ \E rc \in ExitCodes, out \in PfctlOuts :
          LET argv == ReloadArgv(pf_params.dry_run, pf_params.config) IN
          /\ pf_cmds' = Append(pf_cmds, PfCmd(argv, rc, out))
          /\ pf_rules' = IF rc = 0 /\ argv[2] = "-f" THEN pf_params.config
                         ELSE pf_rules
          /\ IF rc # 0
             THEN PfFinish(PfFail("Error: Could not reload pf."))
             ELSE PfFinish(PfExit(ReloadChanged(pf_params.dry_run), out))
    /\ UNCHANGED <<pf_params, pf_check_mode, pf_host, pf_enabled, active_pf, notPf>>

NextPf ==
    \/ ValidateOs
    \/ ValidatePf
    \/ StatusPf
    \/ StartPf
    \/ StopPf
    \/ NothingToDo
    \/ RestartPf
    \/ ReloadPf

SpecPf == InitPf /\ [][NextPf]_vars

(***************************************************************************)
(* pf: vocabulary of the properties                                        *)
(***************************************************************************)
PfDone == pf_pc = "done"

\* the commands that change the packet filter or its rule set
StateChanging(config) ==
    { <<"service", "pf", "start">>, <<"service", "pf", "stop">>,
      <<"service", "pf", "restart">>, <<"pfctl", "-f", config>> }

\* indices of the commands run with an argv in A
PfIdx(A) == {i \in 1..Len(pf_cmds) : pf_cmds[i].argv \in A}

\* main has read the status and acted on it
PfActed == PfDone /\ PfIdx({<<"service", "pf", "status">>}) # {}

(***************************************************************************)
(* C21: check mode.  In check mode, for every action and every status of   *)
(* the packet filter, no state-changing command (service pf start, stop,   *)
(* restart, pfctl -f) is run.                                              *)
(***************************************************************************)
C21_CheckModeRunsNoStateChangingCommand ==
    pf_check_mode => PfIdx(StateChanging(pf_params.config)) = {}

(***************************************************************************)
(* C22: restart.  Whenever the service pf restart command exits 0, the     *)
(* invocation ends with changed=true, whether the packet filter was        *)
(* running or stopped before.                                              *)
(***************************************************************************)
C22_RestartThatExitsZeroIsChanged ==
    (PfDone /\ \E i \in PfIdx({<<"service", "pf", "restart">>}) : pf_cmds[i].rc = 0)
        => pf_result.kind = "exit_json" /\ pf_result.changed

(***************************************************************************)
(* C26: start and stop are idempotent.  action=start on a running packet   *)
(* filter and action=stop on a stopped one run no service start or stop    *)
(* command and end with changed=false; action=start on a stopped one and   *)
(* action=stop on a running one run the service command once and end with  *)
(* changed=true exactly when it exited 0 and the status read afterwards    *)
(* differs from the status read before, and in failure otherwise.          *)
(***************************************************************************)
StartOrStop == PfActed /\ pf_params.action \in {"start", "stop"}

\* the packet filter was already as the action wants it
AlreadyThere == (pf_params.action = "start") <=> active_pf

C26_StartStopIdempotence ==
    StartOrStop =>
        LET svc == PfIdx({<<"service", "pf", pf_params.action>>})
            any == PfIdx({<<"service", "pf", "start">>, <<"service", "pf", "stop">>})
        IN  /\ AlreadyThere =>
                  /\ any = {}
                  /\ pf_result.kind = "exit_json" /\ ~pf_result.changed
            /\ ~AlreadyThere =>
                  /\ Cardinality(svc) = 1 /\ any = svc
                  /\ \A i \in svc :
                        IF pf_cmds[i].rc = 0 /\ pf_enabled # active_pf
                        THEN pf_result.kind = "exit_json" /\ pf_result.changed
                        ELSE pf_result.kind = "fail_json"

C26_Witness ==
    /\ StartOrStop /\ pf_params.action = "start" /\ ~active_pf
    /\ pf_enabled /\ pf_result.kind = "exit_json" /\ pf_result.changed

C26_WitnessAlreadyStopped ==
    /\ StartOrStop /\ pf_params.action = "stop" /\ ~active_pf
    /\ pf_result.kind = "exit_json" /\ ~pf_result.changed

C26_WitnessNoStatusChange ==
    /\ StartOrStop /\ pf_params.action = "stop" /\ active_pf /\ pf_enabled
    /\ \E i \in PfIdx({<<"service", "pf", "stop">>}) : pf_cmds[i].rc = 0
    /\ pf_result.kind = "fail_json"

(***************************************************************************)
(* C27: reload.  With dry_run=true only pfctl -vnf <config> is run, never  *)
(* pfctl -f, and when it exits 0 the result is changed=false with the      *)
(* command's output as rule_set; with dry_run=false exactly one            *)
(* pfctl -f <config> is run and exit 0 gives changed=true; a non-zero exit *)
(* gives a failure in both modes.                                          *)
(***************************************************************************)
ReloadCase == PfActed /\ pf_params.action = "reload"

C27_ReloadDryRunAppliesNothing ==
    ReloadCase =>
        LET check == PfIdx({<<"pfctl", "-vnf", pf_params.config>>})
            apply == PfIdx({<<"pfctl", "-f", pf_params.config>>})
            ran   == IF pf_params.dry_run THEN check ELSE apply
        IN  /\ PfIdx(StateChanging(pf_params.config)) = (IF pf_params.dry_run THEN {} ELSE apply)
            /\ pf_params.dry_run => apply = {} /\ pf_rules = "boot"
            /\ ~pf_params.dry_run => check = {}
            /\ Cardinality(ran) = 1
            /\ \A i \in ran :
                  IF pf_cmds[i].rc = 0
                  THEN /\ pf_result.kind = "exit_json"
                       /\ pf_result.changed = ~pf_params.dry_run
                       /\ pf_params.dry_run => pf_result.rule_set = pf_cmds[i].stdout
                  ELSE pf_result.kind = "fail_json"

C27_Witness ==
    /\ ReloadCase /\ pf_params.dry_run
    /\ pf_result.kind = "exit_json" /\ ~pf_result.changed
    /\ pf_result.rule_set = "pass in all" /\ pf_rules = "boot"

C27_WitnessApply ==
    /\ ReloadCase /\ ~pf_params.dry_run
    /\ pf_result.kind = "exit_json" /\ pf_result.changed
    /\ pf_rules = pf_params.config

(***************************************************************************)
(* freshclam: inputs, results and commands                                 *)
(***************************************************************************)
FreshclamExitCodes == 0..MaxFreshclamRc

\* get_bin_path('freshclam'): None when the binary is not found
BinPaths == { NoneS, <<"/", "b", "/", "f", "r", "e", "s", "h", "c", "l", "a", "m">> }

\* what freshclam prints on stdout and on stderr
FcOuts == { <<>>, <<"o">>, <<"o", "k">> }
FcErrs == { <<>>, <<"e">> }

\* python: s.endswith(suffix)
EndsWith(s, suffix) ==
    /\ Len(s) >= Len(suffix)
    /\ SubSeq(s, Len(s) - Len(suffix) + 1, Len(s)) = suffix

\* get_freshclam_path: None.endswith raises AttributeError
BinaryMissing(bin) == bin = NoneS

\* get_freshclam_path: the path if it ends with 'freshclam', else None
FreshclamPath(bin) == IF EndsWith(bin, <<"f", "r", "e", "s", "h", "c", "l", "a", "m">>) THEN bin ELSE NoneS

\* main: 'Error: ' + str(out) + str(err)
ErrorMsgOutOnly(out, err) == <<"E", "r", "r", "o", "r", ":", " ">> \o out
ErrorMsg(out, err) == <<"E", "r", "r", "o", "r", ":", " ">> \o out \o err

\* main: the if rc_code == ... chain
ChangedFor(rc) == rc = 0

FcExit(changed, update) ==
    [ kind |-> "exit_json", changed |-> changed, meta |-> update, msg |-> <<>> ]

FcFail(msg) == [ kind |-> "fail_json", changed |-> FALSE, meta |-> None, msg |-> msg ]

\* an exception nobody catches: the process dies with a traceback
FcUnhandled == [ kind |-> "exception", changed |-> FALSE, meta |-> None, msg |-> <<>> ]

FcFinish(r) == fc_pc' = "done" /\ fc_result' = r

FcGoto(l) == fc_pc' = l /\ fc_result' = fc_result

(***************************************************************************)
(* freshclam: the invocation                                               *)
(***************************************************************************)
InitFreshclam ==
    /\ fc_params \in [update : BOOLEAN]
    /\ fc_check_mode \in BOOLEAN
    /\ fc_bin \in BinPaths
    /\ fc_pc = "get_freshclam_path"
    /\ fc_locals = Unbound
    /\ fc_cmds = <<>>
    /\ fc_result = FcNoResult
    /\ JavaCertNotStarted
    /\ PfNotStarted
    /\ AuditNotStarted
    /\ TeamsNotStarted

\* main: freshclam = get_freshclam_path(module)
GetFreshclamPath ==
    /\ fc_pc = "get_freshclam_path"
    /\ IF BinaryMissing(fc_bin)
       THEN FcFinish(FcFail("Error: Could not find path to freshclam binary. Make sure freshclam is installed."))
       ELSE FcGoto("update")
    /\ UNCHANGED <<fc_params, fc_check_mode, fc_bin, fc_locals, fc_cmds, notFreshclam>>

\* main: if update: rc_code, out, err = update_freshclam(module, freshclam)
UpdateFreshclam ==
    /\ fc_pc = "update" /\ fc_params.update
    /\ \E rc \in FreshclamExitCodes, out \in FcOuts, err \in FcErrs :
          /\ fc_cmds' = Append(fc_cmds, [argv |-> FreshclamPath(fc_bin), rc |-> rc])
          /\ fc_locals' = [bound |-> TRUE, rc_code |-> rc, out |-> out, err |-> err]
    /\ FcGoto("meta")
    /\ UNCHANGED <<fc_params, fc_check_mode, fc_bin, notFreshclam>>

\* main: update is false, the if body is skipped
SkipUpdate ==
    /\ fc_pc = "update" /\ ~fc_params.update
    /\ FcGoto("meta")
    /\ UNCHANGED <<fc_params, fc_check_mode, fc_bin, fc_locals, fc_cmds, notFreshclam>>

\* main: if rc_code == 0 / == 1 / == 2, then the end of main.  Reading
\* rc_code when it is not bound raises UnboundLocalError; with another exit
\* code main returns and the process ends without exit_json or fail_json
CreateMeta ==
    /\ fc_pc = "meta"
    /\ IF ~fc_locals.bound
       THEN FcFinish(FcUnhandled)
       ELSE IF fc_locals.rc_code \in {0, 1}
       THEN FcFinish(FcExit(ChangedFor(fc_locals.rc_code),
                            IF fc_locals.rc_code = 0
                            THEN "Successfully updated ClamAV signatures via freshclam."
                            ELSE "ClamAV signatures are already up to date."))
       ELSE IF fc_locals.rc_code = 2
       THEN FcFinish(FcFail(ErrorMsg(fc_locals.out, fc_locals.err)))
       ELSE FcFinish(FcNoResult)
    /\ UNCHANGED <<fc_params, fc_check_mode, fc_bin, fc_locals, fc_cmds, notFreshclam>>

NextFreshclam ==
    \/ GetFreshclamPath
    \/ UpdateFreshclam
    \/ SkipUpdate
    \/ CreateMeta

SpecFreshclam == InitFreshclam /\ [][NextFreshclam]_vars

(***************************************************************************)
(* freshclam: vocabulary of the properties                                 *)
(***************************************************************************)
FcDone == fc_pc = "done"

\* get_freshclam_path returned the path of the binary
FoundBinary == fc_bin # NoneS /\ fc_pc # "get_freshclam_path"

(***************************************************************************)
(* C28: termination.  For both values of update and every exit code of     *)
(* the freshclam command, an invocation that found the binary ends, and    *)
(* ends with exactly one result, exit_json or fail_json, never an          *)
(* unhandled exception and never no result; with update=false the          *)
(* freshclam command is not run.                                           *)
(***************************************************************************)
C28_EndsWithExactlyOneResult ==
    FoundBinary =>
        /\ ~FcDone => ENABLED NextFreshclam
        /\ FcDone => fc_result.kind \in {"exit_json", "fail_json"}
        /\ ~fc_params.update => fc_cmds = <<>>

(***************************************************************************)
(* C29: result mapping with update=true.  The freshclam command is run     *)
(* exactly once; exit code 0 gives changed=true, exit code 1 gives         *)
(* changed=false, exit code 2 gives a failure whose message contains the   *)
(* captured stdout and stderr.                                             *)
(***************************************************************************)
UpdateCase == FoundBinary /\ fc_params.update /\ FcDone

C29_ResultMapping ==
    UpdateCase =>
        /\ Len(fc_cmds) = 1
        /\ fc_cmds[1].argv = fc_bin
        /\ fc_cmds[1].rc = 0 => fc_result.kind = "exit_json" /\ fc_result.changed
        /\ fc_cmds[1].rc = 1 => fc_result.kind = "exit_json" /\ ~fc_result.changed
        /\ fc_cmds[1].rc = 2 =>
              /\ fc_result.kind = "fail_json"
              /\ Contains(fc_locals.out, fc_result.msg)
              /\ Contains(fc_locals.err, fc_result.msg)
              /\ Len(fc_result.msg) >= Len(fc_locals.out) + Len(fc_locals.err)

C29_Witness ==
    /\ UpdateCase /\ fc_cmds[1].rc = 2
    /\ fc_locals.out = <<"o", "k">> /\ fc_locals.err = <<"e">>
    /\ fc_result.kind = "fail_json"

C29_WitnessUpToDate ==
    /\ UpdateCase /\ fc_cmds[1].rc = 1
    /\ fc_result.kind = "exit_json" /\ ~fc_result.changed

(***************************************************************************)
(* Callbacks: configuration values and playbook statistics                 *)
(***************************************************************************)
\* configparser BOOLEAN_STATES
TrueWords  == {"1", "yes", "true", "on"}
FalseWords == {"0", "no", "false", "off"}

\* the value of a boolean key in the ini file: missing, or as written
IniValues == {None, "True", "False", "yes", "0", "maybe"}

\* python: value.lower()
Lower(v) ==
    IF v = "True" THEN "true" ELSE IF v = "False" THEN "false" ELSE v

\* config[section].getboolean(key) raises ValueError: not a boolean
GetBooleanRaises(v) == v # None /\ Lower(v) \notin TrueWords \cup FalseWords

\* config[section].getboolean(key): True, False, or the fallback None when
\* the key is missing
GetBoolean(v) ==
    IF v = None THEN "None"
    ELSE IF Lower(v) \in TrueWords THEN "True" ELSE "False"

\* python: if b, for b one of True, False, None
IsTrue(b) == b = "True"

\* the hosts of the play, in sorted order
Hosts == {"h1", "h2"}
HostOrder == <<"h1", "h2">>

\* stats: the processed hosts and the failures of each
AllStats ==
    UNION { [ processed : {S}, failures : [S -> 0..MaxFailures] ] : S \in SUBSET Hosts }

\* python: sorted(stats.processed.keys())
Sorted(S) == SelectSeq(HostOrder, LAMBDA h : h \in S)

\* the for loop of playbook_on_stats: whether a host has failures > 0
AnyFailure(stats) == \E h \in stats.processed : stats.failures[h] > 0

\* the loop variable host after the loop: the last host, unbound if there
\* was none
LastHost(stats) ==
    LET hosts == Sorted(stats.processed)
    IN  IF hosts = <<>> THEN Unset ELSE hosts[Len(hosts)]

\* os.getlogin(), or the exception it raises without a controlling terminal
Logins == {"root", "OSError"}

\* v2_playbook_on_start: try: os.getlogin() except: "Unknown"
Executor(login) == IF login = "OSError" THEN "Unknown" ELSE login

(***************************************************************************)
(* audit: rows of the CSV log                                              *)
(***************************************************************************)
\* csv.writer: None is written as the empty string
CsvField(v) == IF v = None THEN "" ELSE v

\* csv_write_header: header
Header ==
    <<"Date", "Time", "Status", "Executor", "Playbook", "Limit", "Tags",
      "Extra-Vars", "Hosts">>

\* csv_write_header: the header is written if the file is empty
HeaderDue(file) == Len(file) = 0

\* csv_write_content: ansible_status_run
RunStatusText(run_status) == IF run_status = "True" THEN "Ok" ELSE "Failed"

\* csv_write_content: row; limit, tags and extra_vars are None (cli is None)
Row(self) ==
    << "<date>", "<time>", RunStatusText(self.run_status), self.executor,
       self.playbook_name, CsvField(None), CsvField(None), CsvField(None),
       self.host >>

\* csv_write_header
CsvWriteHeader(file) == IF HeaderDue(file) THEN Append(file, Header) ELSE file

\* csv_write_content: the header first; building the row reads
\* self.executor, which raises AttributeError if v2_playbook_on_start did
\* not get to assign it
CsvWriteContent(file, self) ==
    IF self.executor = Unset
    THEN CsvWriteHeader(file)
    ELSE Append(CsvWriteHeader(file), Row(self))

(***************************************************************************)
(* audit: playbook runs                                                    *)
(***************************************************************************)
InitAudit ==
    /\ audit_ini \in [enable : IniValues]
    /\ csv_file = <<>>
    /\ au_pc = "new"
    /\ au_self = AuditNoSelf
    /\ au_run = 1
    /\ au_stats = <<>>
    /\ JavaCertNotStarted
    /\ PfNotStarted
    /\ FreshclamNotStarted
    /\ TeamsNotStarted

\* __init__; if it raises, ansible does not load the plugin and the run
\* goes on without it
AuditConstruct ==
    /\ au_pc = "new"
    /\ IF GetBooleanRaises(audit_ini.enable)
       THEN au_pc' = "end" /\ au_self' = au_self
       ELSE /\ au_pc' = "start"
            /\ au_self' = [au_self EXCEPT !.audit_enable = GetBoolean(audit_ini.enable),
                                          !.playbook_name = None]
    /\ UNCHANGED <<audit_ini, csv_file, au_run, au_stats, notAudit>>

\* v2_playbook_on_start; get_hosts()[0] raises IndexError with an empty
\* inventory, before self.executor is assigned
AuditPlaybookOnStart ==
    /\ au_pc = "start"
    /\ \E empty_inventory \in BOOLEAN, login \in Logins :
          au_self' = [au_self EXCEPT
                         !.playbook_name = "site.yml",
                         !.executor = IF empty_inventory THEN @ ELSE Executor(login)]
    /\ au_pc' = "stats"
    /\ UNCHANGED <<audit_ini, csv_file, au_run, au_stats, notAudit>>

\* playbook_on_stats and the csv_write_content it calls; self.host = host
\* raises UnboundLocalError when no host was processed
AuditPlaybookOnStats ==
    /\ au_pc = "stats"
    /\ \E stats \in AllStats :
          /\ au_stats' = Append(au_stats, stats)
          /\ LET status == IF AnyFailure(stats) THEN "False" ELSE "True"
                 self == [au_self EXCEPT !.run_status = status,
                                         !.host = LastHost(stats)]
             IN  IF LastHost(stats) = Unset
                 THEN /\ au_self' = [au_self EXCEPT !.run_status = status]
                      /\ csv_file' = csv_file
                 ELSE /\ au_self' = self
                      /\ csv_file' = CsvWriteContent(csv_file, self)
    /\ au_pc' = "end"
    /\ UNCHANGED <<audit_ini, au_run, notAudit>>

\* the next playbook run: a new process, the same configuration and log file
AuditRunAgain ==
    /\ au_pc = "end"
    /\ au_run < MaxPlaybookRuns
    /\ au_run' = au_run + 1
    /\ au_pc' = "new"
    /\ au_self' = AuditNoSelf
    /\ UNCHANGED <<audit_ini, csv_file, au_stats, notAudit>>

NextAudit ==
    \/ AuditConstruct
    \/ AuditPlaybookOnStart
    \/ AuditPlaybookOnStats
    \/ AuditRunAgain

SpecAudit == InitAudit /\ [][NextAudit]_vars

(***************************************************************************)
(* C23: dry-run mode.  When the configuration option enable is false, no   *)
(* header and no row is written to the CSV log file at the end of a        *)
(* playbook run.                                                           *)
(***************************************************************************)
C23_DisabledWritesNothing ==
    Lower(audit_ini.enable) \in FalseWords => csv_file = <<>>

(***************************************************************************)
(* C30: the CSV log.  Over any sequence of playbook runs writing to the    *)
(* same log file, the header row is written exactly once, as the first row *)
(* of the file, and each playbook_on_stats event appends exactly one data  *)
(* row after it, whose status is "Failed" if and only if at least one      *)
(* processed host has failures > 0.                                        *)
(***************************************************************************)
C30_HeaderOnceAndOneRowPerRun ==
    /\ \A i \in 1..Len(csv_file) : (csv_file[i] = Header) <=> (i = 1)
    /\ Len(au_stats) > 0 => Len(csv_file) = Len(au_stats) + 1
    /\ \A k \in 1..Len(au_stats) :
          k + 1 <= Len(csv_file) =>
              ((csv_file[k + 1][3] = "Failed") <=> AnyFailure(au_stats[k]))

(***************************************************************************)
(* msteams: messages                                                       *)
(***************************************************************************)
\* teams_send_msg_*: if self.ms_teams_notify: send() else: printme()
NotifyAlways == TRUE
Notify == IsTrue(tm_self.ms_teams_notify)

\* v2_playbook_on_start: if self.ms_teams_start_notify
StartNotify == IsTrue(tm_self.ms_teams_start_notify)

\* teams_send_msg_err reads self.task and self.debug, teams_send_msg_fin
\* reads self.executor and self.summary; teams_send_msg_start reads only
\* fields that are assigned by then
Ready(kind, self) ==
    IF kind = "error" THEN self.task # Unset /\ self.debug # Unset
    ELSE IF kind = "finished" THEN self.executor # Unset /\ self.summary # Unset
    ELSE TRUE

\* teams_send_msg_start / _err / _fin on log = [sent, printed]: an
\* AttributeError while the card is built, or an exception of send(), is
\* caught and reported as [CRITICAL]
Emit(log, kind, self, delivered) ==
    IF ~Ready(kind, self)
    THEN [log EXCEPT !.printed = Append(@, "CRITICAL")]
    ELSE IF Notify
         THEN [ sent |-> Append(log.sent, [kind |-> kind, delivered |-> delivered]),
                printed |-> IF delivered THEN log.printed
                            ELSE Append(log.printed, "CRITICAL") ]
         ELSE [log EXCEPT !.printed = Append(@, kind)]

TeamsLog == [sent |-> teams_sent, printed |-> teams_printed]

Logged(log) == teams_sent' = log.sent /\ teams_printed' = log.printed

(***************************************************************************)
(* msteams: one playbook run                                               *)
(***************************************************************************)
InitTeams ==
    /\ teams_ini \in [enable_notify : IniValues, enable_start_notify : IniValues]
    /\ teams_sent = <<>>
    /\ teams_printed = <<>>
    /\ tm_pc = "new"
    /\ tm_self = TeamsNoSelf
    /\ tm_stats = <<>>
    /\ JavaCertNotStarted
    /\ PfNotStarted
    /\ FreshclamNotStarted
    /\ AuditNotStarted

\* __init__; if it raises, ansible does not load the plugin and the run
\* goes on without it
TeamsConstruct ==
    /\ tm_pc = "new"
    /\ IF GetBooleanRaises(teams_ini.enable_start_notify)
          \/ GetBooleanRaises(teams_ini.enable_notify)
       THEN tm_pc' = "end" /\ tm_self' = tm_self
       ELSE /\ tm_pc' = "start"
            /\ tm_self' = [tm_self EXCEPT
                  !.ms_teams_start_notify = GetBoolean(teams_ini.enable_start_notify),
                  !.ms_teams_notify = GetBoolean(teams_ini.enable_notify)]
    /\ UNCHANGED <<teams_ini, teams_sent, teams_printed, tm_stats, notTeams>>

\* v2_playbook_on_start and the teams_send_msg_start it calls;
\* get_hosts()[0] raises IndexError with an empty inventory, before
\* self.executor is assigned and before the start message
TeamsPlaybookOnStart ==
    /\ tm_pc = "start"
    /\ \E empty_inventory \in BOOLEAN, login \in Logins, delivered \in BOOLEAN :
          IF empty_inventory
          THEN UNCHANGED <<tm_self, teams_sent, teams_printed>>
          ELSE LET self == [tm_self EXCEPT !.executor = Executor(login)]
               IN  /\ tm_self' = self
                   /\ IF StartNotify
                      THEN Logged(Emit(TeamsLog, "start", self, delivered))
                      ELSE UNCHANGED <<teams_sent, teams_printed>>
    /\ tm_pc' = "tasks"
    /\ UNCHANGED <<teams_ini, tm_stats, notTeams>>

\* v2_playbook_on_task_start
TeamsTaskStart ==
    /\ tm_pc = "tasks"
    /\ tm_self' = [tm_self EXCEPT !.task = "task"]
    /\ UNCHANGED <<teams_ini, teams_sent, teams_printed, tm_pc, tm_stats, notTeams>>

\* v2_runner_on_ok
TeamsRunnerOnOk ==
    /\ tm_pc = "tasks"
    /\ tm_self.task # Unset
    /\ tm_self' = [tm_self EXCEPT !.debug = "debug"]
    /\ UNCHANGED <<teams_ini, teams_sent, teams_printed, tm_pc, tm_stats, notTeams>>

\* playbook_on_stats and the teams_send_msg_err / teams_send_msg_fin it
\* calls; self.host = host raises UnboundLocalError when no host was
\* processed
TeamsPlaybookOnStats ==
    /\ tm_pc = "tasks"
    /\ \E stats \in AllStats, delivered_err \in BOOLEAN, delivered_fin \in BOOLEAN :
          /\ tm_stats' = Append(tm_stats, stats)
          /\ IF LastHost(stats) = Unset
             THEN UNCHANGED <<tm_self, teams_sent, teams_printed>>
             ELSE IF AnyFailure(stats)
             THEN LET self == [tm_self EXCEPT !.host = LastHost(stats)]
                  IN  /\ tm_self' = self
                      /\ Logged(Emit(Emit(TeamsLog, "error", self, delivered_err),
                                     "finished", self, delivered_fin))
             ELSE LET self == [tm_self EXCEPT !.host = LastHost(stats),
                                              !.summary = "summary"]
                  IN  /\ tm_self' = self
                      /\ Logged(Emit(TeamsLog, "finished", self, delivered_fin))
    /\ tm_pc' = "end"
    /\ UNCHANGED <<teams_ini, notTeams>>

NextTeams ==
    \/ TeamsConstruct
    \/ TeamsPlaybookOnStart
    \/ TeamsTaskStart
    \/ TeamsRunnerOnOk
    \/ TeamsPlaybookOnStats

SpecTeams == InitTeams /\ [][NextTeams]_vars

(***************************************************************************)
(* C24: notifications off.  When enable_notify is false, no message of any *)
(* kind (start, error, finished) is sent to the channel during the whole   *)
(* run; a start message is sent only when both enable_start_notify and     *)
(* enable_notify are true.                                                 *)
(***************************************************************************)
ConfiguredTrue(v) == Lower(v) \in TrueWords

C24_NothingSentWhenNotifyOff ==
    /\ ~ConfiguredTrue(teams_ini.enable_notify) => teams_sent = <<>>
    /\ \A i \in 1..Len(teams_sent) :
          teams_sent[i].kind = "start" =>
              /\ ConfiguredTrue(teams_ini.enable_start_notify)
              /\ ConfiguredTrue(teams_ini.enable_notify)

C24_Witness ==
    /\ tm_pc = "end"
    /\ teams_ini.enable_notify = "False" /\ teams_ini.enable_start_notify = "True"
    /\ teams_sent = <<>>
    /\ teams_printed = <<"start", "finished">>

C24_WitnessStartSent ==
    /\ teams_ini.enable_notify = "yes" /\ teams_ini.enable_start_notify = "True"
    /\ Len(teams_sent) > 0 /\ teams_sent[1].kind = "start"

(***************************************************************************)
(* C31: the closing message.  At the end of a playbook run with at least   *)
(* one processed host: if any host has failures > 0, exactly one error     *)
(* message is emitted and no finished message; if no host has failures,    *)
(* exactly one finished message and no error message.  A message is        *)
(* emitted when it is handed to send() or, in dry-run mode, to printme().  *)
(***************************************************************************)
\* how many messages of the kind were handed to send() or printme()
Emitted(kind) ==
    Cardinality({i \in 1..Len(teams_sent) : teams_sent[i].kind = kind})
    + Cardinality({i \in 1..Len(teams_printed) : teams_printed[i] = kind})

\* playbook_on_stats has been called with at least one processed host
StatsHandled == Len(tm_stats) = 1 /\ tm_stats[1].processed # {}

C31_OneErrorOrOneFinished ==
    StatsHandled =>
        IF AnyFailure(tm_stats[1])
        THEN Emitted("error") = 1 /\ Emitted("finished") = 0
        ELSE Emitted("finished") = 1 /\ Emitted("error") = 0

====
